---- MODULE Spec2Model ----
(***************************************************************************)
(* repr-format: the buffered, layout-deferred formatting engine.           *)
(*                                                                         *)
(* A Formatter walks a value graph and pushes fragments into Buffers; a    *)
(* later flush resolves the fragments into text.  The walk is a recursive  *)
(* descent in the source; here its call stack is the variable `stack`, and *)
(* every action is one piece of straight-line code between two calls.      *)
(*                                                                         *)
(* A JavaScript string is a sequence of atoms: the line feed is the atom   *)
(* "\n", every other atom is a piece of text without a line feed.          *)
(* Concatenation is \o, the empty string is << >>.                         *)
(***************************************************************************)
EXTENDS Integers, Sequences, FiniteSets, TLC

\* ------------------------------------------------------------------ bounds
\* Fields / entries in the whole value graph handed to format.
MaxItems == 3
\* Objects in the value graph: the root and at most one more per item.
MaxObj == MaxItems + 1
\* Calls of toString() after the walk.
MaxFlush == 2
\* Nesting of open calls at which the walk is cut off; the code as written
\* never nests deeper than 2 * MaxObj + 1.
MaxStack == 12
\* The length of the strings passed to format.
MaxLen == 2

\* ------------------------------------------------------------ JS constants
\* undefined / null, where a string is expected.
Undefined == "undefined"
\* A number that may be absent (undefined) or infinite.
Absent == [is |-> "absent", n |-> 0]
Infinity == [is |-> "infinity", n |-> 0]
Fin(n) == [is |-> "number", n |-> n]
NL == "\n"
\* Options.indent, the default unit of indentation.
IndentUnit == "  "

VARIABLES
    heap,          \* the value graph: object id -> [kind, nf, vals]
    result,        \* Formatter.result: id of the buffer written to
    bufs,          \* the Buffers: buffer id -> its fragments
    depth,         \* Formatter.depth
    limitDepth,    \* Formatter.limitDepth
    maxComplexity, \* Formatter.maxComplexity
    seen,          \* Formatter.seen: object id -> reference id, 0 when absent
    refs,          \* the `ref` records of formatReference: [count, number]
    REF_NUMBER,    \* REF_NUMBER.get(fmt), Absent until first set
    stack,         \* the open calls of the walk, innermost last
    pc,            \* "walk", "done" (format returned), "raised" (format threw)
    outs,          \* the strings returned by the calls of toString(), in order
    pretty,        \* the option `pretty` the engine was constructed with
    expansions,    \* history: object id -> how often a representation was
                   \* invoked on it
    entryDepth,    \* history: buffer id -> Formatter.depth when _subformatter
                   \* created the buffer
    args,          \* the arguments of format(value, options): [value,
                   \* options, rest], rest = the option keys the constructor
                   \* does not destructure
    error,         \* << >>, or <<ex>>: the exception that left the program
    previous,      \* the strings an earlier engine returned for the same
                   \* arguments; << >> while the first engine runs
    repeats        \* history: the reference ids in the order of their first
                   \* addRef()

vars == <<heap, result, bufs, depth, limitDepth, maxComplexity, seen, refs,
          REF_NUMBER, stack, pc, outs, pretty, expansions, entryDepth, args,
          error, previous, repeats>>

\* ------------------------------------------------------------------ values
Null == [k |-> "null"]
Num(n) == [k |-> "number", n |-> n]
Ref(o) == [k |-> "object", id |-> o]
\* A property whose getter raises ex.
Getter(ex) == [k |-> "getter", ex |-> ex]
\* A string, as the sequence of its characters.
Text(s) == [k |-> "string", s |-> s]
\* An index of an array that is not set: nothing is read there.
Hole == [k |-> "hole"]

DefaultKinds == {"Object", "Set"}
CustomKinds == {"CustomLines", "CustomThrow", "CustomScopeThrow"}
Kinds == DefaultKinds \cup CustomKinds
\* Arrays: [..., ...] and new Name(...) with class Name extends Array {}.
ListKinds == {"Array", "NamedArray"}
\* The kinds of value that occur as the formatted value only, with numbers
\* and raising getters as their property values: arrays, an object literal
\* with the keys RecordKeys[shape], Object.create(null), and objects whose
\* custom representation calls fmt.struct('X', f => { f.field(...) ... }),
\* on keys it lists or on keys it sorted with util.compareKeys, and the
\* arrays with holes SparseArrays[shape], and a Uint8Array of nf bytes.
RootKinds ==
    ListKinds \cup {"Record", "NullProto", "CustomFields", "CustomSorted",
                    "SparseArray", "Uint8Array"}

\* The name of the i-th own key of an object; all are valid identifiers and
\* already in the order compareKeys sorts strings into.
KeyOf(i) == <<"k", ToString(i)>>

\* ------------------------------------------------------------------ strings
\* A string is the sequence of its characters.  The control characters that
\* have no notation of their own:
NUL == "<NUL>"
BS == "<BS>"
VT == "<VT>"
LF == NL
CR == "\r"
TAB == "\t"
FF == "\f"
QUOTE == "\""
BACKSLASH == "\\"

Digits == {"0", "1", "2", "3", "4", "5", "6", "7", "8", "9"}
Letters ==
    {"a", "b", "c", "d", "e", "f", "g", "h", "i", "j", "k", "l", "m",
     "n", "o", "p", "q", "r", "s", "t", "u", "v", "w", "x", "y", "z",
     "A", "N", "S", "X", "Z"}

\* The characters of the model in the order of their code units.
CodeUnits ==
    <<NUL, BS, TAB, LF, VT, FF, CR, " ", QUOTE, "$", "-",
      "0", "1", "2", "3", "4", "5", "6", "7", "8", "9",
      "A", "N", "S", "X", "Z", BACKSLASH, "_",
      "a", "b", "c", "d", "e", "f", "g", "h", "i", "j", "k", "l", "m",
      "n", "o", "p", "q", "r", "s", "t", "u", "v", "w", "x", "y", "z">>
CharCode(c) == CHOOSE i \in 1 .. Len(CodeUnits) : CodeUnits[i] = c

\* a < b on strings: the order of the first code unit that differs.
RECURSIVE StringLess(_, _)
StringLess(a, b) ==
    IF b = << >> THEN FALSE
    ELSE IF a = << >> THEN TRUE
    ELSE IF Head(a) = Head(b) THEN StringLess(Tail(a), Tail(b))
    ELSE CharCode(Head(a)) < CharCode(Head(b))

\* A pattern that lets a digit start an identifier.
isIdentifierLoose(name) ==
    /\ name # << >>
    /\ \A i \in 1 .. Len(name) : name[i] \in Letters \cup Digits \cup {"_", "$"}

\* util.isIdentifier: /^[a-zA-Z_$][a-zA-Z0-9_$]*$/
isIdentifier(name) ==
    /\ name # << >>
    /\ name[1] \in Letters \cup {"_", "$"}
    /\ \A i \in 1 .. Len(name) : name[i] \in Letters \cup Digits \cup {"_", "$"}

\* The replacement callback of util.escape.
EscapeChar(char) ==
    CASE char = NUL -> <<BACKSLASH, "0">>
      [] char = LF -> <<BACKSLASH, "n">>
      [] char = CR -> <<BACKSLASH, "r">>
      [] char = VT -> <<BACKSLASH, "v">>
      [] char = TAB -> <<BACKSLASH, "t">>
      [] char = BS -> <<BACKSLASH, "b">>
      [] char = FF -> <<BACKSLASH, "f">>
      [] OTHER -> <<char>>

\* str.replace(/[\0\n\r\v\t\b\f]/g, ...)
RECURSIVE ReplaceControls(_)
ReplaceControls(str) ==
    IF str = << >> THEN << >>
    ELSE EscapeChar(Head(str)) \o ReplaceControls(Tail(str))

\* r.replace(RegExp(terminator, 'g'), '\\' + terminator), the terminator
\* being one character that is no regular expression operator.
RECURSIVE ReplaceTerminator(_, _)
ReplaceTerminator(r, terminator) ==
    IF r = << >> THEN << >>
    ELSE (IF Head(r) = terminator THEN <<BACKSLASH, terminator>> ELSE <<Head(r)>>)
         \o ReplaceTerminator(Tail(r), terminator)

\* An escape that leaves the terminator alone.
escapeControlsOnly(str, terminator) == ReplaceControls(str)

\* util.escape(str, terminator); terminator = Undefined when not given.
escape(str, terminator) ==
    IF terminator # Undefined
    THEN ReplaceTerminator(ReplaceControls(str), terminator)
    ELSE ReplaceControls(str)

\* The strings passed to format: the characters escape treats, the
\* backslash, and two letters it leaves alone.
Strings ==
    UNION {[1 .. n -> {NUL, LF, CR, VT, TAB, BS, FF, QUOTE, BACKSLASH, "a", "n"}] :
               n \in 0 .. MaxLen}

\* ------------------------------------------------------------ property keys
\* A property key: a string, a symbol (with its description, or with its
\* key in the global symbol registry), or, when a caller of Struct.field
\* passes one, a number.
StringKey(s) == [t |-> "string", s |-> s]
SymbolKey(description) == [t |-> "symbol", s |-> description, keyFor |-> Undefined]
NumberKey(n) == [t |-> "number", n |-> n]
\* Symbol.for(key)
KeyedSymbol(key) == [t |-> "symbol", s |-> key, keyFor |-> key]

\* util.compareKeys(a, b) < 0, = 0, > 0 as -1, 0, 1 (for numbers: the sign
\* of b - a).
compareKeys(a, b) ==
    IF a.t = "number" /\ b.t = "number"
    THEN (IF b.n < a.n THEN -1 ELSE IF b.n > a.n THEN 1 ELSE 0)
    ELSE IF a.t = "string" /\ b.t = "string"
    THEN (IF StringLess(a.s, b.s) THEN -1 ELSE IF StringLess(b.s, a.s) THEN 1 ELSE 0)
    ELSE IF a.t = "number" THEN -1
    ELSE IF b.t = "number" THEN 1
    ELSE IF a.t = "string" THEN -1
    ELSE IF b.t = "string" THEN 1
    ELSE IF a.keyFor = Undefined /\ b.keyFor = Undefined THEN 0
    ELSE IF a.keyFor = Undefined THEN -1
    ELSE IF b.keyFor = Undefined THEN 1
    ELSE (IF StringLess(a.keyFor, b.keyFor) THEN -1
          ELSE IF StringLess(b.keyFor, a.keyFor) THEN 1 ELSE 0)

\* keys.sort(util.compareKeys): a stable sort.
RECURSIVE Insert(_, _)
Insert(sorted, key) ==
    IF sorted = << >> THEN <<key>>
    ELSE IF compareKeys(key, Head(sorted)) < 0 THEN <<key>> \o sorted
    ELSE <<Head(sorted)>> \o Insert(Tail(sorted), key)
RECURSIVE sort(_)
sort(keys) ==
    IF keys = << >> THEN << >>
    ELSE Insert(sort(SubSeq(keys, 1, Len(keys) - 1)), keys[Len(keys)])

\* ---------------------------------------------------------------- fragments
Str(s) == [t |-> "string", s |-> s]
HardBreak(indent) == [t |-> "break", break |-> "hard", indent |-> indent]
SoftBreak(text, indent) ==
    [t |-> "break", break |-> "soft", text |-> text, indent |-> indent]
\* { style, value }: value is one fragment or a sequence of fragments.
Styled(style, value) == [t |-> "style", style |-> style, value |-> value]
Arr(items) == [t |-> "array", items |-> items]
BufferFragment(b) == [t |-> "buffer", id |-> b]
\* The closures `source` and `reference` of the reference record r.
SourceThunk(r) == [t |-> "function", fn |-> "source", ref |-> r]
ReferenceThunk(r) == [t |-> "function", fn |-> "reference", ref |-> r]

\* The default style processor: () => ['', ''].
style(tag) == <<<< >>, << >>>>

\* ------------------------------------------------------------------- Buffer
\* Buffer.push on buffer r.
push(bs, r, fragment) == [bs EXCEPT ![r] = Append(@, fragment)]

\* String.prototype.indexOf('\n'), 1-based; 0 when absent.
RECURSIVE IndexOfNL(_, _)
IndexOfNL(s, i) ==
    IF i > Len(s) THEN 0
    ELSE IF s[i] = NL THEN i
    ELSE IndexOfNL(s, i + 1)

\* indent.repeat(n)
RECURSIVE repeat(_, _)
repeat(unit, n) == IF n <= 0 THEN << >> ELSE <<unit>> \o repeat(unit, n - 1)

\* Formatter._write: a string is cut after every line feed, and a hard break
\* at the current depth is pushed after each cut.
RECURSIVE WriteString(_, _, _, _)
WriteString(bs, r, d, s) ==
    LET inx == IndexOfNL(s, 1) IN
    IF inx = 0 THEN push(bs, r, Str(s))
    ELSE LET cut == push(push(bs, r, Str(SubSeq(s, 1, inx))), r, HardBreak(d))
             rest == SubSeq(s, inx + 1, Len(s))
         IN  IF Len(rest) > 0 THEN WriteString(cut, r, d, rest) ELSE cut

_write(bs, r, d, fragment) ==
    IF fragment.t # "string" THEN push(bs, r, fragment)
    ELSE WriteString(bs, r, d, fragment.s)

\* Formatter.write(...data)
RECURSIVE write(_, _, _, _)
write(bs, r, d, data) ==
    IF data = << >> THEN bs
    ELSE CHOOSE written \in
             {write(next, r, d, rest) :
                  next \in {_write(b, r, d, fragment) :
                                b \in {bs}, fragment \in {Head(data)}},
                  rest \in {Tail(data)}} : TRUE

\* number -> string, as `'#' + num` does.
NumStr(n) == ToString(n)

\* A threshold that must be exceeded, not reached.
ReachesMaxStrict(x, mc) == mc.is = "number" /\ x > mc.n

\* x >= maxComplexity for a maxComplexity that may be Infinity.
ReachesMax(x, mc) == mc.is = "number" /\ x >= mc.n

\* The state a flush threads through its fragments: the pieces collected so
\* far, the running complexity and multiline flag, and the reference records
\* and counter the thunks read and write.
RECURSIVE processFragment(_, _, _, _)
RECURSIVE processAll(_, _, _, _)
RECURSIVE flush(_, _, _, _, _)

\* A source that gives every identity a marker, re-encountered or not.
sourceAlways(r, rs, rn) ==
    LET num == IF rn = Absent THEN 0 ELSE rn.n IN
    [frag |-> Arr(<<Styled("hint", Str(<<"#", NumStr(num)>>)), Str(<<" = ">>)>>),
     refs |-> [rs EXCEPT ![r].number = num],
     rn |-> Fin(num + 1)]

\* A source that reads the counter and leaves it as it is.
sourceSameNumber(r, rs, rn) ==
    IF rs[r].count = 0
    THEN [frag |-> Arr(<< >>), refs |-> rs, rn |-> rn]
    ELSE LET num == IF rn = Absent THEN 0 ELSE rn.n IN
         [frag |-> Arr(<<Styled("hint", Str(<<"#", NumStr(num)>>)), Str(<<" = ">>)>>),
          refs |-> [rs EXCEPT ![r].number = num],
          rn |-> Fin(num)]

\* The closure `source` of formatReference.
source(r, rs, rn) ==
    IF rs[r].count = 0
    THEN [frag |-> Arr(<< >>), refs |-> rs, rn |-> rn]
    ELSE LET num == IF rn = Absent THEN 0 ELSE rn.n IN
         [frag |-> Arr(<<Styled("hint", Str(<<"#", NumStr(num)>>)), Str(<<" = ">>)>>),
          refs |-> [rs EXCEPT ![r].number = num],
          rn |-> Fin(num + 1)]

\* The closure `reference` of formatReference.
reference(r, rs) == Styled("hint", Str(<<"#", NumStr(rs[r].number), "#">>))

\* A flush that counts every directly nested buffer as 1.
NestedCountsOne(acc, sub) ==
    [partial |-> Append(acc.partial, Str(sub.value)),
     complexity |-> acc.complexity + 1,
     multiline |-> acc.multiline \/ sub.multiline,
     refs |-> sub.refs, rn |-> sub.rn]

\* A flush that leaves the layout of a nested buffer to that buffer.
NestedOwnLayout(acc, sub) ==
    [partial |-> Append(acc.partial, Str(sub.value)),
     complexity |-> acc.complexity + sub.complexity,
     multiline |-> acc.multiline,
     refs |-> sub.refs, rn |-> sub.rn]

\* processFragment on a nested Buffer, after its flush returned `sub`.
Nested(acc, sub) ==
    [partial |-> Append(acc.partial, Str(sub.value)),
     complexity |-> acc.complexity + sub.complexity,
     multiline |-> acc.multiline \/ sub.multiline,
     refs |-> sub.refs, rn |-> sub.rn]

\* processFragment of Buffer.flush. acc = [partial, complexity, multiline,
\* refs, rn]; o = the flush options [depth, maxComplexity].
processFragment(fragment, acc, bs, o) ==
    IF fragment.t = "array" THEN processAll(fragment.items, acc, bs, o)
    ELSE IF fragment.t = "buffer" THEN
        \* (bound by a quantifier so that the nested flush is computed once)
        CHOOSE r \in {Nested(acc, sub) :
                        sub \in {flush(fragment.id, [o EXCEPT !.depth = o.depth + 1],
                                       bs, acc.refs, acc.rn)}} : TRUE
    ELSE IF fragment.t = "function" THEN
        IF fragment.fn = "source"
        THEN LET s == source(fragment.ref, acc.refs, acc.rn) IN
             processFragment(s.frag, [acc EXCEPT !.refs = s.refs, !.rn = s.rn], bs, o)
        ELSE processFragment(reference(fragment.ref, acc.refs), acc, bs, o)
    ELSE IF fragment.t = "string" THEN
        [acc EXCEPT !.partial = Append(@, fragment)]
    ELSE IF fragment.t = "style" THEN
        LET ba == style(fragment.style)
            a1 == [acc EXCEPT !.partial = Append(@, Str(ba[1]))]
            a2 == processFragment(fragment.value, a1, bs, o)
        IN  [a2 EXCEPT !.partial = Append(@, Str(ba[2]))]
    ELSE IF fragment.break = "hard" THEN
        [acc EXCEPT !.multiline = TRUE, !.partial = Append(@, fragment)]
    ELSE [acc EXCEPT !.partial = Append(@, fragment)]

\* Array.prototype.forEach(processFragment)
processAll(items, acc, bs, o) ==
    IF items = << >> THEN acc
    ELSE CHOOSE r \in {processAll(Tail(items), a, bs, o) :
                          a \in {processFragment(Head(items), acc, bs, o)}} : TRUE

\* The second loop of flush: the pieces to text.
RECURSIVE Render(_, _)
Render(partial, multiline) ==
    IF partial = << >> THEN << >>
    ELSE LET f == Head(partial)
             piece == IF f.t = "string" THEN f.s
                      ELSE IF multiline THEN <<NL>> \o repeat(IndentUnit, f.indent)
                      ELSE IF f.break = "soft" THEN f.text
                      ELSE << >>
         IN  piece \o Render(Tail(partial), multiline)

\* Buffer.flush of buffer b: [value, complexity, multiline] and the reference
\* records and counter as the thunks left them.
flush(b, o, bs, rs, rn) ==
    LET acc0 == [partial |-> << >>, complexity |-> 0, multiline |-> FALSE,
                 refs |-> rs, rn |-> rn]
    IN  CHOOSE r \in {
            LET multiline ==
                    acc.multiline \/ ReachesMax(acc.complexity, o.maxComplexity)
            IN  [value |-> Render(acc.partial, multiline),
                 complexity |-> acc.complexity + 1,
                 multiline |-> multiline,
                 refs |-> acc.refs,
                 rn |-> acc.rn] :
            acc \in {processAll(bs[b], acc0, bs, o)}} : TRUE

\* ------------------------------------------------------------ the engine
\* `maxComplexity ?? 3` of the constructor.
DefaultMaxComplexity == 3

\* The option records the engine is constructed with (an absent key is
\* Undefined).
Options(p, mc, ld) == [pretty |-> p, maxComplexity |-> mc, limitDepth |-> ld]
OptionSets ==
    {Options(FALSE, Absent, Absent), Options(TRUE, Absent, Absent),
     Options(TRUE, Fin(1), Absent), Options(TRUE, Absent, Fin(1))}

\* The keys `...rest` collects: those the constructor does not destructure.
RestSets ==
    {<< >>, <<StringKey(<<"foo">>)>>,
     <<StringKey(<<"foo">>), StringKey(<<"bar">>)>>,
     <<SymbolKey(<<"sym">>)>>}

\* Array.prototype.join(', ') on string keys.
RECURSIVE join(_, _)
join(keys, sep) ==
    IF keys = << >> THEN << >>
    ELSE IF Len(keys) = 1 THEN keys[1].s
    ELSE keys[1].s \o sep \o join(Tail(keys), sep)

\* What ToString(symbol) raises inside join.
SymbolToStringError ==
    [isError |-> TRUE, name |-> "TypeError",
     message |-> <<"Cannot convert a Symbol value to a string">>]

\* Formatter.constructor with Reflect.ownKeys(rest).length > 0: what it
\* raises.
ConstructorError(rest) ==
    IF \E i \in 1 .. Len(rest) : rest[i].t = "symbol"
    THEN SymbolToStringError
    ELSE [isError |-> TRUE, name |-> "Error",
          message |-> <<"Invalid options to Formatter: ">> \o join(rest, <<", ">>)]

\* Formatter.constructor: the fields computed from the options.
ConstructMaxComplexity(options) ==
    IF options.pretty
    THEN IF options.maxComplexity = Absent THEN Fin(DefaultMaxComplexity)
         ELSE options.maxComplexity
    ELSE Infinity

ConstructLimitDepth(options) ==
    IF options.limitDepth = Absent THEN Infinity ELSE options.limitDepth

\* formatReference: a fresh record { count: 0, number: 0 }.
formatReference == [count |-> 0, number |-> 0]

\* The closure `addRef` of formatReference, on record r.
addRef(rs, r) == [rs EXCEPT ![r].count = @ + 1]

\* `prototype && prototype.constructor` of an object without a prototype.
NoConstructor == "null"
\* constructor.name and the Symbol.toStringTag an object of a kind inherits.
CtorName(kind) ==
    CASE kind = "Object" -> "Object"
      [] kind = "Record" -> "Object"
      [] kind = "Set" -> "Set"
      [] kind = "Array" -> "Array"
      [] kind = "SparseArray" -> "Array"
      [] kind = "Uint8Array" -> "Uint8Array"
      [] kind = "NamedArray" -> "Name"
      [] kind = "NullProto" -> NoConstructor
      [] OTHER -> "Custom"
TagOf(kind) ==
    IF kind = "Set" THEN "Set"
    ELSE IF kind = "Uint8Array" THEN "Uint8Array"
    ELSE Undefined

\* util.objectName raises at `constructor.name` when constructor is null.
objectNameRaises(kind) == CtorName(kind) = NoConstructor
NullNameError ==
    [isError |-> TRUE, name |-> "TypeError",
     message |-> <<"Cannot read properties of null (reading 'name')">>]

\* util.objectName; << >> stands for null (begin tests the name for
\* truthiness only).
objectName(kind) ==
    IF CtorName(kind) \in {"Object", "Array"} /\ TagOf(kind) = Undefined
    THEN << >>
    ELSE IF TagOf(kind) = Undefined THEN <<CtorName(kind)>>
    ELSE <<CtorName(kind), " [", TagOf(kind), "]">>

\* new SubFormatter(formatter, name); List overrides open and close.
SubFormatter(form, name) ==
    [form |-> form, name |-> name,
     open |-> IF form = "list" THEN <<"[">> ELSE <<"{">>,
     close |-> IF form = "list" THEN <<"]">> ELSE <<"}">>,
     has_elements |-> FALSE]

\* SubFormatter.begin: the fragments it writes.
begin(sub) ==
    (IF sub.name # << >>
     THEN <<Str(sub.name), Str(<<" ">>)>> ELSE << >>)
    \o <<Str(sub.open)>>

\* SubFormatter.finish at depth d: the fragments it writes.
finish(sub, d) ==
    (IF sub.has_elements THEN <<SoftBreak(<<" ">>, d)>> ELSE << >>)
    \o <<Str(sub.close)>>

\* SubFormatter.write_item at depth d: what it writes before the callback.
write_item(sub, d) ==
    (IF sub.has_elements THEN <<Str(<<",">>)>> ELSE << >>)
    \o <<SoftBreak(<<" ">>, d)>>

\* formatString: the fragment it writes.
formatString(str) ==
    Styled("string", Arr(<<Str(<<QUOTE>>), Str(escape(str, QUOTE)), Str(<<QUOTE>>)>>))

\* formatSymbol: the fragment it writes.
formatSymbol(sym) ==
    Styled("symbol",
           Str(IF sym.keyFor # Undefined
               THEN <<"Symbol.for(">> \o escape(sym.keyFor, Undefined) \o <<")">>
               ELSE <<"Symbol(">> \o sym.s \o <<")">>))

\* Struct.write_field: what it writes for the key `name`.
WriteKey(name) ==
    IF name.t = "symbol" THEN formatSymbol(name)
    ELSE IF name.t = "number" THEN Styled("number", Str(<<NumStr(name.n)>>))
    ELSE IF isIdentifier(name.s) THEN Str(name.s)
    ELSE formatString(name.s)

\* Struct.write_field at depth d: what it writes before its callback.
write_field(sub, d, key) ==
    write_item(sub, d) \o <<WriteKey(key), Str(<<": ">>)>>

\* The hint the catch block of formatField writes for the error ex.
FieldHint(ex) ==
    Styled("hint",
        Arr(<<Str(<<ex.name>>), Str(<<" when accessing field">>)>>
            \o (IF ex.message # << >>
                THEN <<Str(<<": ">>), Str(ex.message)>> ELSE << >>)))

\* new Error(message)
Error(message) == [isError |-> TRUE, name |-> "Error", message |-> message]
\* A thrown value that is no Error object (throw 'x'): it has neither a name
\* nor a message.
ThrownString == [isError |-> FALSE, name |-> Undefined, message |-> << >>]
\* What `ex.message.length` raises when ex.message is undefined.
TypeError ==
    [isError |-> TRUE, name |-> "TypeError",
     message |-> <<"Cannot read properties of undefined (reading 'length')">>]

\* The bytes of the byte arrays passed to format: NUL, LF, `"`, `a`, 0xff.
Bytes == {0, 10, 34, 97, 255}

\* const HEX = '0123456789abcdef'
HEX == <<"0", "1", "2", "3", "4", "5", "6", "7", "8", "9",
         "a", "b", "c", "d", "e", "f">>

\* String.fromCharCode(byte) for the printable bytes of the model.
FromCharCode(byte) ==
    CASE byte = 32 -> " "
      [] byte = 92 -> BACKSLASH
      [] byte = 97 -> "a"

\* The switch of formatByteArray: the escape it passes to fmt.write for a
\* byte, << >> when the byte is none of its cases.
ByteEscape(byte) ==
    CASE byte = 0 -> <<BACKSLASH, "0">>
      [] byte = 8 -> <<BACKSLASH, "b">>
      [] byte = 9 -> <<BACKSLASH, "t">>
      [] byte = 10 -> <<BACKSLASH, "n">>
      [] byte = 11 -> <<BACKSLASH, "v">>
      [] byte = 12 -> <<BACKSLASH, "f">>
      [] byte = 13 -> <<BACKSLASH, "r">>
      [] byte = 34 -> <<BACKSLASH, QUOTE>>
      [] OTHER -> << >>

\* What formatByteArray appends to `value` for a byte that is none of the
\* cases of its switch.
ByteText(byte) ==
    IF byte >= 32 /\ byte <= 126 THEN <<FromCharCode(byte)>>
    ELSE <<BACKSLASH, "x", HEX[(byte \div 16) + 1], HEX[(byte % 16) + 1]>>

\* ---------------------------------------------------------- the call stack
FormatFrame(v) == [op |-> "format", v |-> v]
\* An activation of _subformatter with its SubFormatter, inside the callback:
\* `buffer` is the saved parent buffer, obj the object whose items the
\* callback walks (0: the callback of a custom representation), i the index
\* of the next item.
ScopeFrame(sub, buffer, obj) ==
    [op |-> "scope", sub |-> sub, buffer |-> buffer, obj |-> obj, i |-> 1]
\* An activation of write_item inside its callback; try = it runs inside the
\* try block of formatField.
ItemFrame(key, try) == [op |-> "item", key |-> key, try |-> try]
\* An activation of formatByteArray inside its loop: obj the array, i the
\* index of the next byte, value its local variable `value`.
BytesFrame(obj) == [op |-> "bytes", obj |-> obj, i |-> 1, value |-> <<QUOTE>>]
\* An error on its way up the stack; from = the code that raised it:
\* "represent" (a custom representation) or "formatField" (its catch block).
ThrowFrame(ex, from) == [op |-> "throw", ex |-> ex, from |-> from]

Top == stack[Len(stack)]
Pop(stk) == SubSeq(stk, 1, Len(stk) - 1)
Walking == pc = "walk" /\ stack # << >>
\* The walk is over when the outermost call of format has returned.
PcAfter(stk) == IF stk = << >> THEN "done" ELSE "walk"

RECURSIVE SumNf(_, _)
SumNf(h, i) == IF i > Len(h) THEN 0 ELSE h[i].nf + SumNf(h, i + 1)

\* The own keys of the object literals of kind "Record", in the order of
\* their definition.
RecordKeys ==
    <<<<StringKey(<<"v", "a", "l", "i", "d", "_", "i", "d">>),
        StringKey(<<"f", "o", "o", "-", "b", "a", "r">>)>>,
      <<SymbolKey(<<"s">>), StringKey(<<"a", QUOTE, "b">>), StringKey(<<"$", "1">>)>>,
      <<StringKey(<<"1", "x">>), StringKey(<< >>), StringKey(<<"a", LF>>)>>>>

\* The keys the custom representation of kind "CustomFields" passes to
\* f.field, in the order of its calls.
CustomFieldKeys == <<NumberKey(7), SymbolKey(<<"s">>), StringKey(<<"a", " ", "b">>)>>

\* The keys the custom representation of kind "CustomSorted" sorts with
\* util.compareKeys before it passes them to f.field.
UnsortedKeys ==
    <<<<NumberKey(2), NumberKey(10), NumberKey(1)>>,
      <<KeyedSymbol(<<"b">>), StringKey(<<"b">>), KeyedSymbol(<<"a">>)>>,
      <<SymbolKey(<<"s">>), StringKey(<<"a">>), NumberKey(1)>>>>

\* The arrays with holes: their length and the indices that are set, in the
\* order of Reflect.ownKeys; [ , 1] is [length |-> 2, indices |-> <<1>>].
SparseArray(length, indices) == [length |-> length, indices |-> indices]
SparseArrays ==
    <<SparseArray(1, << >>),
      SparseArray(2, << >>), SparseArray(2, <<0>>), SparseArray(2, <<1>>),
      SparseArray(3, << >>), SparseArray(3, <<0>>), SparseArray(3, <<1>>),
      SparseArray(3, <<2>>), SparseArray(3, <<0, 1>>), SparseArray(3, <<0, 2>>),
      SparseArray(3, <<1, 2>>)>>

\* The placeholder formatArray writes for dif missing items.
EmptyItemsText(dif) ==
    IF dif = 1 THEN <<"empty item">> ELSE <<NumStr(dif), " empty items">>

\* The first loop of formatArray over the indices that are set: what the
\* callback writes, in order: "empty" (write_item of a placeholder for n
\* items) and "entry" (fmt.entry(this[n])).
RECURSIVE ArrayEntries(_, _)
ArrayEntries(indices, lastKey) ==
    IF indices = << >> THEN << >>
    ELSE LET num == Head(indices)
             dif == num - lastKey - 1
         IN  (IF dif > 0 THEN <<[form |-> "empty", n |-> dif]>> ELSE << >>)
             \o <<[form |-> "entry", n |-> num]>>
             \o ArrayEntries(Tail(indices), num)

\* The callback of formatArray on an array with holes: the first loop, the
\* placeholder for the remaining unset entries, and formatField on `length`.
ArrayItems(array) ==
    LET lastKey == IF array.indices = << >> THEN 0
                   ELSE array.indices[Len(array.indices)]
    IN  ArrayEntries(array.indices, 0)
        \o (IF lastKey + 1 < array.length
            THEN <<[form |-> "empty", n |-> array.length - lastKey - 1]>>
            ELSE << >>)
        \o <<[form |-> "field", n |-> 0]>>

\* The objects the value graph may grow by: [kind, nf, vals, shape]; nf is
\* the number of own keys (for a custom representation: of calls of field),
\* shape the index into RecordKeys of a Record, into UnsortedKeys of a
\* CustomSorted, into SparseArrays of a SparseArray (nf then counts the
\* items its callback writes), the number of named properties of an array
\* without holes, 0 otherwise.
FreshObjects(h) ==
    IF Len(h) >= MaxObj THEN {}
    ELSE {[kind |-> kd, nf |-> n, vals |-> << >>, shape |-> 0] :
              kd \in CustomKinds, n \in {0}}
         \cup {[kind |-> kd, nf |-> n, vals |-> << >>, shape |-> 0] :
              kd \in DefaultKinds, n \in 0 .. (MaxItems - SumNf(h, 1))}
         \cup (IF h # << >> THEN {}
               ELSE {[kind |-> kd, nf |-> len + named + 1, vals |-> << >>,
                      shape |-> named] :
                         kd \in ListKinds, len \in 0 .. MaxItems, named \in 0 .. 1}
                    \cup {[kind |-> "Record", nf |-> Len(RecordKeys[sh]),
                           vals |-> << >>, shape |-> sh] :
                         sh \in 1 .. Len(RecordKeys)}
                    \cup {[kind |-> "NullProto", nf |-> 0, vals |-> << >>, shape |-> 0],
                          [kind |-> "CustomFields", nf |-> Len(CustomFieldKeys),
                           vals |-> << >>, shape |-> 0]}
                    \cup {[kind |-> "CustomSorted", nf |-> Len(UnsortedKeys[sh]),
                           vals |-> << >>, shape |-> sh] :
                         sh \in 1 .. Len(UnsortedKeys)}
                    \cup {[kind |-> "Uint8Array", nf |-> n, vals |-> << >>,
                           shape |-> 0] : n \in 0 .. MaxLen}
                    \cup {[kind |-> "SparseArray",
                           nf |-> Len(ArrayItems(SparseArrays[sh])),
                           vals |-> << >>, shape |-> sh] :
                         sh \in 1 .. Len(SparseArrays)})

\* array.length
ArrayLength(ob) ==
    IF ob.kind = "SparseArray" THEN SparseArrays[ob.shape].length
    ELSE ob.nf - ob.shape - 1

\* The keys of an object in the order in which its representation visits
\* them: formatObject sorts Reflect.ownKeys, formatArray takes the indices
\* first and then the other keys sorted, `length` among them.
Keys(ob) ==
    CASE ob.kind \in ListKinds ->
           [i \in 1 .. ArrayLength(ob) |-> StringKey(<<ToString(i - 1)>>)]
           \o sort(<<StringKey(<<"l", "e", "n", "g", "t", "h">>)>>
                   \o [i \in 1 .. ob.shape |-> StringKey(KeyOf(i))])
      [] ob.kind = "Record" -> sort(RecordKeys[ob.shape])
      [] ob.kind = "CustomFields" -> CustomFieldKeys
      [] ob.kind = "CustomSorted" -> sort(UnsortedKeys[ob.shape])
      [] ob.kind = "SparseArray" ->
           [i \in 1 .. ob.nf |->
               IF ArrayItems(SparseArrays[ob.shape])[i].form = "field"
               THEN StringKey(<<"l", "e", "n", "g", "t", "h">>)
               ELSE StringKey(<<ToString(ArrayItems(SparseArrays[ob.shape])[i].n)>>)]
      [] OTHER -> [i \in 1 .. ob.nf |-> StringKey(KeyOf(i))]

\* Reflect.getOwnPropertyDescriptor(obj, key).enumerable
Enumerable(ob, key) ==
    ~(/\ ob.kind \in ListKinds \cup {"SparseArray"}
      /\ key = StringKey(<<"l", "e", "n", "g", "t", "h">>))

\* How the representation of an object writes its i-th item: "entry"
\* (fmt.entry(value)), "field" (formatField), "call" (f.field(key, value)
\* in a custom representation) or "empty" (the placeholder for holes).
ItemForm(ob, i) ==
    CASE ob.kind = "Set" -> "entry"
      [] ob.kind \in ListKinds -> IF i <= ArrayLength(ob) THEN "entry" ELSE "field"
      [] ob.kind \in {"CustomFields", "CustomSorted"} -> "call"
      [] ob.kind = "SparseArray" -> ArrayItems(SparseArrays[ob.shape])[i].form
      [] OTHER -> "field"

\* What a getter may raise.
Raised == {Error(<< >>), Error(<<"boom">>), ThrownString}

\* Reading item i of object o (obj[key] in formatField, the iteration of a
\* Set): the value read and the value graph as it is known afterwards.  A
\* value that was read before is read again unchanged.
ReadItem(o, i) ==
    IF i <= Len(heap[o].vals)
    THEN {[val |-> heap[o].vals[i], heap |-> heap]}
    ELSE LET known(v) == [heap EXCEPT ![o].vals = Append(@, v)] IN
         IF heap[o].kind \in RootKinds
         THEN {[val |-> v, heap |-> known(v)] :
                  v \in IF heap[o].kind = "Uint8Array"
                        THEN {Num(byte) : byte \in Bytes}
                        ELSE {Num(i)} \cup (IF heap[o].kind \in ListKinds
                                            THEN {Getter(Error(<<"boom">>))}
                                            ELSE {})}
         ELSE
         {[val |-> v, heap |-> known(v)] :
              v \in {Num(1)} \cup {Ref(j) : j \in 1 .. Len(heap)}
                   \cup (IF heap[o].kind = "Object"
                         THEN {Getter(ex) : ex \in Raised} ELSE {})}
         \cup {[val |-> Ref(Len(heap) + 1),
                heap |-> Append(known(Ref(Len(heap) + 1)), ob)] :
                   ob \in FreshObjects(heap)}

\* --------------------------------------------------------------------- Init
\* The state after `new Formatter(options)` of index.ts, before
\* formatter.format(value); when the constructor raises, no Buffer exists and
\* the program is over.
Init ==
    /\ \E options \in OptionSets, rest \in RestSets,
          root \in {Null, Num(1), Ref(1)} \cup {Text(str) : str \in Strings} :
          /\ args = [value |-> root, options |-> options, rest |-> rest]
          /\ pretty = options.pretty
          /\ maxComplexity = ConstructMaxComplexity(options)
          /\ limitDepth = ConstructLimitDepth(options)
          /\ IF root.k = "object"
             THEN \E ob \in FreshObjects(<< >>) : heap = <<ob>>
             ELSE heap = << >>
          /\ IF rest = << >>
             THEN /\ result = 1
                  /\ bufs = <<<< >>>>
                  /\ stack = <<FormatFrame(root)>>
                  /\ pc = "walk"
                  /\ error = << >>
             ELSE \* the options with unknown keys are tried on one value
                  /\ root = Null /\ options = Options(FALSE, Absent, Absent)
                  /\ result = 0
                  /\ bufs = << >>
                  /\ stack = << >>
                  /\ pc = "raised"
                  /\ error = <<ConstructorError(rest)>>
    /\ depth = 0
    /\ seen = [o \in 1 .. MaxObj |-> 0]
    /\ refs = << >>
    /\ REF_NUMBER = Absent
    /\ outs = << >>
    /\ expansions = [o \in 1 .. MaxObj |-> 0]
    /\ entryDepth = <<0>>
    /\ previous = << >>
    /\ repeats = << >>

Config == <<limitDepth, maxComplexity, pretty>>

\* ------------------------------------------------------------------ format
\* format(null)
FormatNull ==
    /\ Walking /\ Top.op = "format" /\ Top.v.k = "null"
    /\ bufs' = write(bufs, result, depth, <<Styled("null", Str(<<"null">>))>>)
    /\ stack' = Pop(stack)
    /\ pc' = PcAfter(stack')
    /\ UNCHANGED <<entryDepth, heap, result, depth, seen, refs, REF_NUMBER, outs,
                   expansions, Config,
                   args, error, previous, repeats>>

\* format(number): formatDefault, case 'number'.
FormatNumber ==
    /\ Walking /\ Top.op = "format" /\ Top.v.k = "number"
    /\ bufs' = write(bufs, result, depth,
                     <<Styled("number", Str(<<NumStr(Top.v.n)>>))>>)
    /\ stack' = Pop(stack)
    /\ pc' = PcAfter(stack')
    /\ UNCHANGED <<entryDepth, heap, result, depth, seen, refs, REF_NUMBER, outs,
                   expansions, Config,
                   args, error, previous, repeats>>

\* format(string): formatDefault, case 'string': formatString.
FormatString ==
    /\ Walking /\ Top.op = "format" /\ Top.v.k = "string"
    /\ bufs' = write(bufs, result, depth, <<formatString(Top.v.s)>>)
    /\ stack' = Pop(stack)
    /\ pc' = PcAfter(stack')
    /\ UNCHANGED <<entryDepth, heap, result, depth, seen, refs, REF_NUMBER, outs,
                   expansions, Config, args, error, previous, repeats>>

\* A format that never finds a value in `seen`.
SeenRefNever(o) == 0

\* this.seen.get(value) of format.
SeenRef(o) == seen[o]

\* format(object) on an object found in `seen`: write(ref.addRef()), return.
FormatSeen ==
    /\ Walking /\ Top.op = "format" /\ Top.v.k = "object"
    /\ SeenRef(Top.v.id) # 0
    /\ refs' = addRef(refs, SeenRef(Top.v.id))
    /\ repeats' = IF refs[SeenRef(Top.v.id)].count = 0
                  THEN Append(repeats, SeenRef(Top.v.id)) ELSE repeats
    /\ bufs' = write(bufs, result, depth, <<ReferenceThunk(SeenRef(Top.v.id))>>)
    /\ stack' = Pop(stack)
    /\ pc' = PcAfter(stack')
    /\ UNCHANGED <<entryDepth, heap, result, depth, seen, REF_NUMBER, outs, expansions,
                   Config, args, error, previous>>

\* The first half of _subformatter, up to the call of the callback: the
\* engine's buffers, current buffer and depth after it.
OpenScope(bs, r, d, sub) ==
    [bufs |-> write(Append(bs, << >>), Len(bs) + 1, d, begin(sub)),
     result |-> Len(bs) + 1,
     depth |-> d + 1]

\* format(object), first visit, common part: register the reference and
\* write its source thunk.
Register(o) ==
    /\ SeenRef(o) = 0
    /\ refs' = Append(refs, formatReference)
    /\ seen' = [seen EXCEPT ![o] = Len(refs) + 1]
    /\ expansions' = [expansions EXCEPT ![o] = @ + 1]

Registered(bs, r, d) == write(bs, r, d, <<SourceThunk(Len(refs) + 1)>>)

\* The sub-formatter formatObject, formatSet and formatArray use.
FormOf(kind) ==
    IF kind = "Set" THEN "set"
    ELSE IF kind \in ListKinds \cup {"SparseArray"} THEN "list"
    ELSE "struct"

\* format(object), first visit, formatObject / formatSet / formatArray: open
\* the scope.
FormatDefault ==
    /\ Walking /\ Top.op = "format" /\ Top.v.k = "object"
    /\ heap[Top.v.id].kind \in DefaultKinds \cup ListKinds \cup {"Record", "SparseArray"}
    /\ Register(Top.v.id)
    /\ LET o == Top.v.id
           sub == SubFormatter(FormOf(heap[o].kind), objectName(heap[o].kind))
           e == OpenScope(Registered(bufs, result, depth), result, depth, sub)
       IN  /\ bufs' = e.bufs
           /\ result' = e.result
           /\ depth' = e.depth
           /\ entryDepth' = Append(entryDepth, depth)
           /\ stack' = Append(Pop(stack), ScopeFrame(sub, result, o))
    /\ pc' = "walk"
    /\ UNCHANGED <<heap, REF_NUMBER, outs, Config,
                   args, error, previous, repeats>>

\* format(object), first visit, formatObject on an object without prototype:
\* _subformatter replaces this.result by a new Buffer and the constructor of
\* the sub-formatter raises in util.objectName.
FormatNullProto ==
    /\ Walking /\ Top.op = "format" /\ Top.v.k = "object"
    /\ heap[Top.v.id].kind = "NullProto"
    /\ objectNameRaises(heap[Top.v.id].kind)
    /\ Register(Top.v.id)
    /\ bufs' = Append(Registered(bufs, result, depth), << >>)
    /\ result' = Len(bufs) + 1
    /\ entryDepth' = Append(entryDepth, depth)
    /\ stack' = Append(Pop(stack), ThrowFrame(NullNameError, "objectName"))
    /\ pc' = "walk"
    /\ UNCHANGED <<heap, depth, REF_NUMBER, outs, Config,
                   args, error, previous, repeats>>

\* A custom representation that writes a struct through Struct.field:
\* [represent](fmt) { fmt.struct('X', f => { f.field(7, 1); ... }) }
\* [represent](fmt) { fmt.struct('X', f => {
\*     for (const key of keys.sort(util.compareKeys)) f.field(key, ...) }) }
FormatCustomFields ==
    /\ Walking /\ Top.op = "format" /\ Top.v.k = "object"
    /\ heap[Top.v.id].kind \in {"CustomFields", "CustomSorted"}
    /\ Register(Top.v.id)
    /\ LET sub == SubFormatter("struct", <<"X">>)
           e == OpenScope(Registered(bufs, result, depth), result, depth, sub)
       IN  /\ bufs' = e.bufs
           /\ result' = e.result
           /\ depth' = e.depth
           /\ entryDepth' = Append(entryDepth, depth)
           /\ stack' = Append(Pop(stack), ScopeFrame(sub, result, Top.v.id))
    /\ pc' = "walk"
    /\ UNCHANGED <<heap, REF_NUMBER, outs, Config,
                   args, error, previous, repeats>>

\* A custom representation that writes text with an embedded line feed:
\* [represent](fmt) { fmt.write('a\nb') }
FormatCustomLines ==
    /\ Walking /\ Top.op = "format" /\ Top.v.k = "object"
    /\ heap[Top.v.id].kind = "CustomLines"
    /\ Register(Top.v.id)
    /\ bufs' = write(Registered(bufs, result, depth), result, depth,
                     <<Str(<<"a", NL, "b">>)>>)
    /\ stack' = Pop(stack)
    /\ pc' = PcAfter(stack')
    /\ UNCHANGED <<entryDepth, heap, result, depth, REF_NUMBER, outs, Config,
                   args, error, previous, repeats>>

\* A custom representation that raises:
\* [represent](fmt) { throw new Error('boom') }
FormatCustomThrow ==
    /\ Walking /\ Top.op = "format" /\ Top.v.k = "object"
    /\ heap[Top.v.id].kind = "CustomThrow"
    /\ Register(Top.v.id)
    /\ bufs' = Registered(bufs, result, depth)
    /\ stack' = Append(Pop(stack), ThrowFrame(Error(<<"boom">>), "represent"))
    /\ pc' = "walk"
    /\ UNCHANGED <<entryDepth, heap, result, depth, REF_NUMBER, outs, Config,
                   args, error, previous, repeats>>

\* A custom representation that raises inside a scope it opened:
\* [represent](fmt) { fmt.struct('X', f => { throw new Error('boom') }) }
FormatCustomScopeThrow ==
    /\ Walking /\ Top.op = "format" /\ Top.v.k = "object"
    /\ heap[Top.v.id].kind = "CustomScopeThrow"
    /\ Register(Top.v.id)
    /\ LET sub == SubFormatter("struct", <<"X">>)
           e == OpenScope(Registered(bufs, result, depth), result, depth, sub)
       IN  /\ bufs' = e.bufs
           /\ result' = e.result
           /\ depth' = e.depth
           /\ entryDepth' = Append(entryDepth, depth)
           /\ stack' = Pop(stack) \o <<ScopeFrame(sub, result, 0),
                                       ThrowFrame(Error(<<"boom">>), "represent")>>
    /\ pc' = "walk"
    /\ UNCHANGED <<heap, REF_NUMBER, outs, Config,
                   args, error, previous, repeats>>

\* ------------------------------------------------------------------- items
InCallback == Walking /\ Top.op = "scope" /\ Top.obj # 0
MoreItems == InCallback /\ Top.i <= heap[Top.obj].nf
SetTop(stk, f) == [stk EXCEPT ![Len(stk)] = f]
\* The key of the item the callback is at, and the way it is written.
Key == Keys(heap[Top.obj])[Top.i]
Item == ItemForm(heap[Top.obj], Top.i)
IsField == Item = "field" /\ Enumerable(heap[Top.obj], Key)

\* formatField, when reading the property raises an Error: the catch block
\* writes the field with a hint through write_field.
FieldGetterRaises ==
    /\ MoreItems /\ IsField
    /\ \E rd \in ReadItem(Top.obj, Top.i) :
          /\ rd.val.k = "getter"
          /\ rd.val.ex.isError
          /\ heap' = rd.heap
          /\ bufs' = write(bufs, result, depth,
                           write_field(Top.sub, depth, Key)
                           \o <<FieldHint(rd.val.ex)>>)
    /\ stack' = SetTop(stack, [Top EXCEPT !.i = @ + 1, !.sub.has_elements = TRUE])
    /\ UNCHANGED <<entryDepth, result, depth, seen, refs, REF_NUMBER, pc, outs, expansions,
                   Config,
                   args, error, previous, repeats>>

\* formatField, when reading the property raises a value without a message:
\* `ex.message.length` in the catch block raises a TypeError, outside the try.
FieldCatchRaises ==
    /\ MoreItems /\ IsField
    /\ Len(stack) + 1 <= MaxStack
    /\ \E rd \in ReadItem(Top.obj, Top.i) :
          /\ rd.val.k = "getter"
          /\ ~rd.val.ex.isError
          /\ heap' = rd.heap
    /\ stack' = Append(SetTop(stack, [Top EXCEPT !.i = @ + 1]),
                       ThrowFrame(TypeError, "formatField"))
    /\ UNCHANGED <<entryDepth, result, bufs, depth, seen, refs, REF_NUMBER, pc, outs,
                   expansions, Config,
                   args, error, previous, repeats>>

\* formatField on a key that is not enumerable (the length of an array):
\* nothing is written.
FieldSkipped ==
    /\ MoreItems /\ Item = "field" /\ ~Enumerable(heap[Top.obj], Key)
    /\ heap' = IF Top.i <= Len(heap[Top.obj].vals) THEN heap
               ELSE [heap EXCEPT ![Top.obj].vals =
                                     Append(@, Num(ArrayLength(heap[Top.obj])))]
    /\ stack' = SetTop(stack, [Top EXCEPT !.i = @ + 1])
    /\ UNCHANGED <<entryDepth, result, bufs, depth, seen, refs, REF_NUMBER, pc, outs,
                   expansions, Config, args, error, previous, repeats>>

\* formatArray on a gap between two indices, or after the last one:
\* fmt.write_item({ style: 'undefined', value: 'empty item' | 'N empty items' }).
EmptyItems ==
    /\ MoreItems /\ Item = "empty"
    /\ heap' = IF Top.i <= Len(heap[Top.obj].vals) THEN heap
               ELSE [heap EXCEPT ![Top.obj].vals = Append(@, Hole)]
    /\ bufs' = write(bufs, result, depth,
                     write_item(Top.sub, depth)
                     \o <<Styled("undefined",
                                 Str(EmptyItemsText(
                                     ArrayItems(SparseArrays[heap[Top.obj].shape])[Top.i].n)))>>)
    /\ stack' = SetTop(stack, [Top EXCEPT !.i = @ + 1, !.sub.has_elements = TRUE])
    /\ UNCHANGED <<entryDepth, result, depth, seen, refs, REF_NUMBER, pc, outs,
                   expansions, Config, args, error, previous, repeats>>

\* formatField, when the property is read: fmt.field(key, obj[key]) up to the
\* call of format inside the callback of write_item; also f.field(key, value)
\* called by a custom representation, which has no try block around it.
FieldBegin ==
    /\ MoreItems /\ (IsField \/ Item = "call")
    /\ Len(stack) + 2 <= MaxStack
    /\ \E rd \in ReadItem(Top.obj, Top.i) :
          /\ rd.val.k # "getter"
          /\ heap' = rd.heap
          /\ stack' = SetTop(stack, [Top EXCEPT !.i = @ + 1])
                      \o <<ItemFrame(Key, Item = "field"), FormatFrame(rd.val)>>
    /\ bufs' = write(bufs, result, depth, write_field(Top.sub, depth, Key))
    /\ UNCHANGED <<entryDepth, result, depth, seen, refs, REF_NUMBER, pc, outs, expansions,
                   Config,
                   args, error, previous, repeats>>

\* formatArray, when reading this[num] raises: fmt.entry is not called and
\* no try block encloses the read.
EntryGetterRaises ==
    /\ MoreItems /\ Item = "entry"
    /\ Len(stack) + 1 <= MaxStack
    /\ \E rd \in ReadItem(Top.obj, Top.i) :
          /\ rd.val.k = "getter"
          /\ heap' = rd.heap
          /\ stack' = Append(SetTop(stack, [Top EXCEPT !.i = @ + 1]),
                             ThrowFrame(rd.val.ex, "formatArray"))
    /\ UNCHANGED <<entryDepth, result, bufs, depth, seen, refs, REF_NUMBER, pc, outs,
                   expansions, Config, args, error, previous, repeats>>

\* formatSet, formatArray: fmt.entry(value) up to the call of format inside
\* the callback of write_item.
EntryBegin ==
    /\ MoreItems /\ Item = "entry"
    /\ Len(stack) + 2 <= MaxStack
    /\ \E rd \in ReadItem(Top.obj, Top.i) :
          /\ rd.val.k # "getter"
          /\ heap' = rd.heap
          /\ stack' = SetTop(stack, [Top EXCEPT !.i = @ + 1])
                      \o <<ItemFrame(<< >>, FALSE), FormatFrame(rd.val)>>
    /\ bufs' = write(bufs, result, depth, write_item(Top.sub, depth))
    /\ UNCHANGED <<entryDepth, result, depth, seen, refs, REF_NUMBER, pc, outs, expansions,
                   Config,
                   args, error, previous, repeats>>

\* write_item after its callback returned: this.has_elements = true.
ItemEnd ==
    /\ Walking /\ Top.op = "item"
    /\ stack' = SetTop(Pop(stack),
                       [stack[Len(stack) - 1] EXCEPT !.sub.has_elements = TRUE])
    /\ UNCHANGED <<entryDepth, heap, result, bufs, depth, seen, refs, REF_NUMBER, pc, outs,
                   expansions, Config,
                   args, error, previous, repeats>>

\* The second half of _subformatter, after the callback returned.
CloseScope(bs, r, d, frame) ==
    LET finished == write(bs, r, d - 1, finish(frame.sub, d - 1)) IN
    [bufs |-> push(finished, frame.buffer, BufferFragment(r)),
     result |-> frame.buffer,
     depth |-> d - 1]

ScopeEnd ==
    /\ InCallback /\ ~MoreItems
    /\ LET e == CloseScope(bufs, result, depth, Top) IN
          /\ bufs' = e.bufs
          /\ result' = e.result
          /\ depth' = e.depth
    /\ stack' = Pop(stack)
    /\ pc' = PcAfter(stack')
    /\ UNCHANGED <<entryDepth, heap, seen, refs, REF_NUMBER, outs, expansions, Config,
                   args, error, previous, repeats>>

\* -------------------------------------------------------------- byte arrays
\* format(object), first visit, formatByteArray up to its loop:
\* let value = '"'.
FormatByteArray ==
    /\ Walking /\ Top.op = "format" /\ Top.v.k = "object"
    /\ heap[Top.v.id].kind = "Uint8Array"
    /\ Register(Top.v.id)
    /\ bufs' = Registered(bufs, result, depth)
    /\ stack' = Append(Pop(stack), BytesFrame(Top.v.id))
    /\ pc' = "walk"
    /\ UNCHANGED <<entryDepth, heap, result, depth, REF_NUMBER, outs, Config,
                   args, error, previous, repeats>>

\* One round of the loop of formatByteArray: a byte that is a case of the
\* switch is passed to fmt.write as its escape, any other byte is appended
\* to `value`.
NextByte ==
    /\ Walking /\ Top.op = "bytes" /\ Top.i <= heap[Top.obj].nf
    /\ \E rd \in ReadItem(Top.obj, Top.i) :
          /\ heap' = rd.heap
          /\ IF ByteEscape(rd.val.n) # << >>
             THEN /\ bufs' = write(bufs, result, depth, <<Str(ByteEscape(rd.val.n))>>)
                  /\ stack' = SetTop(stack, [Top EXCEPT !.i = @ + 1])
             ELSE /\ bufs' = bufs
                  /\ stack' = SetTop(stack, [Top EXCEPT !.i = @ + 1,
                                                        !.value = @ \o ByteText(rd.val.n)])
    /\ UNCHANGED <<entryDepth, result, depth, seen, refs, REF_NUMBER, pc, outs,
                   expansions, Config, args, error, previous, repeats>>

\* formatByteArray after its loop: value += '"';
\* fmt.write(util.objectName(this), ' ', { style: 'string', value }).
ByteArrayEnd ==
    /\ Walking /\ Top.op = "bytes" /\ Top.i > heap[Top.obj].nf
    /\ bufs' = write(bufs, result, depth,
                     <<Str(objectName(heap[Top.obj].kind)), Str(<<" ">>),
                       Styled("string", Str(Top.value \o <<QUOTE>>))>>)
    /\ stack' = Pop(stack)
    /\ pc' = PcAfter(stack')
    /\ UNCHANGED <<entryDepth, heap, result, depth, seen, refs, REF_NUMBER, outs,
                   expansions, Config, args, error, previous, repeats>>

\* --------------------------------------------------------------- exceptions
\* The innermost open write_item that runs inside a try block; 0 if none.
RECURSIVE Handler(_, _)
Handler(stk, j) ==
    IF j = 0 THEN 0
    ELSE IF stk[j].op = "item" /\ stk[j].try THEN j
    ELSE Handler(stk, j - 1)

\* `throw ex`: the calls between the throw and the innermost try block are
\* abandoned where they stand; the catch block of formatField then writes
\* the field with a hint.  Without a try block the error leaves format.
Throw ==
    /\ Walking /\ Top.op = "throw"
    /\ LET j == Handler(stack, Len(stack)) IN
       IF j = 0
       THEN /\ stack' = << >>
            /\ pc' = "raised"
            /\ error' = <<Top.ex>>
            /\ bufs' = bufs
       ELSE IF ~Top.ex.isError
       THEN /\ stack' = Append(SubSeq(stack, 1, j - 1),
                               ThrowFrame(TypeError, "formatField"))
            /\ pc' = "walk"
            /\ bufs' = bufs
            /\ error' = error
       ELSE LET scope == stack[j - 1] IN
            /\ error' = error
            /\ bufs' = write(bufs, result, depth,
                             write_field(scope.sub, depth, stack[j].key)
                             \o <<FieldHint(Top.ex)>>)
            /\ stack' = SetTop(SubSeq(stack, 1, j - 1),
                               [scope EXCEPT !.sub.has_elements = TRUE])
            /\ pc' = "walk"
    /\ UNCHANGED <<entryDepth, heap, result, depth, seen, refs, REF_NUMBER, outs, expansions,
                   Config, args, previous, repeats>>

\* ----------------------------------------------------------------- toString
\* Formatter.toString(): flush the current buffer.
toString ==
    /\ pc = "done"
    /\ Len(outs) < (IF previous = << >> THEN MaxFlush ELSE 1)
    /\ \E r \in {flush(result, [depth |-> depth, maxComplexity |-> maxComplexity],
                      bufs, refs, REF_NUMBER)} :
           /\ outs' = Append(outs, r.value)
           /\ refs' = r.refs
           /\ REF_NUMBER' = r.rn
    /\ UNCHANGED <<entryDepth, heap, result, bufs, depth, seen, stack, pc, expansions, Config,
                   args, error, previous, repeats>>

\* A counter that all engines share.
SharedCounter(rn) == rn

\* REF_NUMBER.get(fmt) for an engine that did not flush yet: the WeakMap has
\* no entry for it, whatever other engines did.
FreshCounter(rn) == Absent

\* A second call format(value, options) of index.ts with the same arguments:
\* new Formatter(options), formatter.format(value).
NewEngine ==
    /\ pc = "done" /\ Len(outs) = 1 /\ previous = << >>
    /\ previous' = outs
    /\ result' = 1
    /\ bufs' = <<<< >>>>
    /\ depth' = 0
    /\ seen' = [o \in 1 .. MaxObj |-> 0]
    /\ refs' = << >>
    /\ REF_NUMBER' = FreshCounter(REF_NUMBER)
    /\ stack' = <<FormatFrame(args.value)>>
    /\ pc' = "walk"
    /\ outs' = << >>
    /\ expansions' = [o \in 1 .. MaxObj |-> 0]
    /\ entryDepth' = <<0>>
    /\ repeats' = << >>
    /\ UNCHANGED <<heap, Config, args, error>>

Next ==
    \/ FormatNull
    \/ FormatNumber
    \/ FormatString
    \/ FormatSeen
    \/ FormatDefault
    \/ FormatNullProto
    \/ FormatCustomFields
    \/ FormatByteArray
    \/ NextByte
    \/ ByteArrayEnd
    \/ FormatCustomLines
    \/ FormatCustomThrow
    \/ FormatCustomScopeThrow
    \/ FieldGetterRaises
    \/ FieldCatchRaises
    \/ FieldSkipped
    \/ EmptyItems
    \/ FieldBegin
    \/ EntryGetterRaises
    \/ EntryBegin
    \/ ItemEnd
    \/ ScopeEnd
    \/ Throw
    \/ toString
    \/ NewEngine

Spec == Init /\ [][Next]_vars

\* The walk is a synchronous computation: it runs until format returns or
\* raises.
Walk ==
    \/ FormatNull
    \/ FormatNumber
    \/ FormatString
    \/ FormatSeen
    \/ FormatDefault
    \/ FormatNullProto
    \/ FormatCustomFields
    \/ FormatByteArray
    \/ NextByte
    \/ ByteArrayEnd
    \/ FormatCustomLines
    \/ FormatCustomThrow
    \/ FormatCustomScopeThrow
    \/ FieldGetterRaises
    \/ FieldCatchRaises
    \/ FieldSkipped
    \/ EmptyItems
    \/ FieldBegin
    \/ EntryGetterRaises
    \/ EntryBegin
    \/ ItemEnd
    \/ ScopeEnd
    \/ Throw

\* One call format(value, options) of index.ts: the walk, then toString()
\* (and the further calls of toString() a holder of the engine may make).
Session == Walk \/ toString

\* format(value, options) of index.ts runs the walk and then toString().
FairSpec == Init /\ [][Session]_vars /\ WF_vars(Walk) /\ WF_vars(toString)

\* ------------------------------------------------------------------- claims
\* a -> b is a reference in the value graph.
Refers(a, b) ==
    \E i \in 1 .. Len(heap[a].vals) : heap[a].vals[i] = Ref(b)

\* C1: for every finite object graph, cycles included, format followed by
\* toString terminates: the walk ends (format returns, or raises) and, when it
\* returned, the flush returns a string.
C1_Terminates == <>(pc = "raised" \/ Len(outs) >= 1)

\* A graph with a self-reference and a cycle of two objects was walked and
\* flushed.
C1_Witness ==
    /\ pc = "done" /\ Len(outs) >= 1
    /\ Len(heap) >= 2
    /\ Refers(1, 2) /\ Refers(2, 1) /\ Refers(2, 2)

\* format is about to run on an object that is registered in `seen`.
FormatOfSeen ==
    Walking /\ Top.op = "format" /\ Top.v.k = "object" /\ seen[Top.v.id] # 0

\* C2: within one session no representation is invoked twice on the same
\* object, and format on an object registered in `seen` writes only the
\* back-reference thunk and returns.
C2_ExpandedAtMostOnce ==
    [][/\ \A o \in 1 .. MaxObj : expansions'[o] <= 1
       /\ FormatOfSeen =>
             /\ expansions' = expansions
             /\ bufs' = push(bufs, result, ReferenceThunk(seen[Top.v.id]))
             /\ stack' = Pop(stack)
             /\ result' = result /\ depth' = depth]_vars

\* An object was expanded once and met again twice.
C2_Witness ==
    \E o \in 1 .. Len(heap) :
        /\ expansions[o] = 1
        /\ seen[o] # 0
        /\ refs[seen[o]].count >= 2

\* ------------------------------------------------- the tree of buffers
\* The buffers pushed into buffer b (`buffer.push(this.result)`).
NestedBuffers(b) ==
    {bufs[b][i].id : i \in {j \in 1 .. Len(bufs[b]) : bufs[b][j].t = "buffer"}}

\* b and every buffer a flush of b descends into.
RECURSIVE Subtree(_)
Subtree(b) == {b} \cup UNION {Subtree(c) : c \in NestedBuffers(b)}

\* The buffers of the composites in the output: all but the root buffer.
Composites == Subtree(result) \ {result}

IsBreak(f, kind) == f.t = "break" /\ f.break = kind
Breaks(b, kind) == {i \in 1 .. Len(bufs[b]) : IsBreak(bufs[b][i], kind)}
HasHardBreak(b) == \E c \in Subtree(b) : Breaks(c, "hard") # {}

\* What a flush of buffer b alone returns.
FlushOf(b) ==
    flush(b, [depth |-> 0, maxComplexity |-> maxComplexity], bufs, refs,
          REF_NUMBER)

RECURSIVE SumComplexity(_)
SumComplexity(bset) ==
    IF bset = {} THEN 0
    ELSE LET c == CHOOSE x \in bset : TRUE
         IN  FlushOf(c).complexity + SumComplexity(bset \ {c})

\* The positions at which pat occurs in the string out.
Occ(out, pat) ==
    {i \in 1 .. Len(out) - Len(pat) + 1 : SubSeq(out, i, i + Len(pat) - 1) = pat}

\* The identities met more than once in the session.
Repeated == {o \in 1 .. Len(heap) : seen[o] # 0 /\ refs[seen[o]].count >= 1}

\* C3: in the output of one session every identity met more than once has
\* exactly one source marker `#n = `, placed before each of its back-references
\* `#n#`, one back-reference per re-encounter, and no two identities share n.
C3_OneSourceMarker ==
    Len(outs) = 1 =>
        \A o \in Repeated :
            LET n == refs[seen[o]].number
                src == Occ(outs[1], <<"#", NumStr(n), " = ">>)
                back == Occ(outs[1], <<"#", NumStr(n), "#">>)
            IN  /\ Cardinality(src) = 1
                /\ Cardinality(back) = refs[seen[o]].count
                /\ \A i \in src, j \in back : i < j
                /\ \A q \in Repeated \ {o} : refs[seen[q]].number # n

\* formatField is about to read a property, and the getter raises.
GetterRaises ==
    /\ MoreItems /\ Top.sub.form = "struct"
    /\ Len(heap'[Top.obj].vals) >= Top.i
    /\ heap'[Top.obj].vals[Top.i].k = "getter"

\* C4: when reading a property raises during default struct formatting, the
\* field is written as `key: <ErrorName> when accessing field[: <message>]`,
\* the walk goes on with the next sibling, and format does not raise.
C4_GetterErrorAbsorbed ==
    [][GetterRaises =>
          /\ bufs' = write(bufs, result, depth,
                           write_field(Top.sub, depth, Key)
                           \o <<FieldHint(heap'[Top.obj].vals[Top.i].ex)>>)
          /\ stack' = SetTop(stack, [Top EXCEPT !.i = @ + 1,
                                                !.sub.has_elements = TRUE])
          /\ pc' = "walk"]_vars

\* C5: an error raised by a custom representation is never caught by the
\* engine: at any depth it leaves format.
C5_CustomErrorPropagates ==
    [][(Walking /\ Top.op = "throw" /\ Top.from = "represent")
          => pc' = "raised"]_vars

\* The number of _subformatter activations a value is nested in.
Nesting == Cardinality({j \in 1 .. Len(stack) : stack[j].op = "scope"})

\* C6: when limitDepth is set, no value nested deeper than limitDepth is
\* expanded: with limitDepth 1 the content of `{a: {b: {c: 1}}}` at nesting
\* level 2 is elided, so no third scope is ever open.
C6_DepthLimited ==
    limitDepth.is = "number" => Nesting <= limitDepth.n + 1

\* C7: with pretty true and maxComplexity 3, a composite without a hard break
\* (transitively) whose directly nested buffers' complexities sum to less than
\* 3 is rendered on a single line, and a composite whose nested complexities
\* sum to 3 or more is rendered multi-line.
C7_ComplexityThreshold ==
    (pc = "done" /\ pretty /\ maxComplexity = Fin(DefaultMaxComplexity)) =>
        \A b \in Composites :
            LET sum == SumComplexity(NestedBuffers(b))
                r == FlushOf(b)
                newlines == {i \in 1 .. Len(r.value) : r.value[i] = NL}
            IN  /\ (sum < 3 /\ ~HasHardBreak(b))
                      => (~r.multiline /\ newlines = {})
                /\ sum >= 3 => (r.multiline /\ newlines # {})

\* A composite with three nested composites was rendered multi-line, and one
\* with fewer on a single line.
C7_Witness ==
    /\ pc = "done" /\ pretty /\ maxComplexity = Fin(DefaultMaxComplexity)
    /\ \E b \in Composites :
          /\ SumComplexity(NestedBuffers(b)) = 3
          /\ ~HasHardBreak(b)
          /\ FlushOf(b).multiline
          /\ \E c \in NestedBuffers(b) :
                /\ Breaks(c, "soft") # {}
                /\ ~FlushOf(c).multiline

\* C8: in a buffer of a struct, list, set or map that is rendered multi-line,
\* every item starts on a line indented by the depth at scope entry + 1, every
\* item but the last is directly followed by a comma, and the closing
\* delimiter is on a line of its own indented by the depth at scope entry,
\* with no comma before it.
C8_MultilineLayout ==
    pc = "done" =>
        \A b \in Composites :
            LET soft == Breaks(b, "soft")
                last == Len(bufs[b]) - 1
                d == entryDepth[b]
            IN  (soft # {} /\ FlushOf(b).multiline) =>
                  /\ last \in soft
                  /\ bufs[b][last].indent = d
                  /\ bufs[b][last + 1].t = "string"
                  /\ bufs[b][last - 1] # Str(<<",">>)
                  /\ \A i \in soft \ {last} :
                        /\ bufs[b][i].indent = d + 1
                        /\ \/ \A j \in soft : j >= i
                           \/ bufs[b][i - 1] = Str(<<",">>)

\* C9: with pretty false no break is rendered as a newline: no buffer that
\* holds a break is flushed multi-line.
C9_SingleLine ==
    (pc = "done" /\ ~pretty) =>
        \A b \in Subtree(result) :
            (Breaks(b, "soft") \cup Breaks(b, "hard") # {})
                => ~FlushOf(b).multiline

\* C10: every toString() on the same engine, with no write in between,
\* returns the same string.
C10_FlushIdempotent ==
    \A i, j \in 1 .. Len(outs) : outs[i] = outs[j]

\* C11: two fresh engines given the same value and the same options return
\* the same string, reference numbers included.
C11_Deterministic ==
    (previous # << >> /\ Len(outs) >= 1) => outs[1] = previous[1]

\* The second engine has returned a string with a source marker in it.
C11_Witness ==
    /\ previous # << >> /\ Len(outs) = 1
    /\ Occ(outs[1], <<"#", "1", " = ">>) # {}
    /\ Len(heap) >= 2 /\ Cardinality(Repeated) >= 2

\* C12: when no identity is met more than once in a session, the string it
\* returns has no source marker and no back-reference: no `#` at all.
C12_NoMarkerWithoutRepeat ==
    Repeated = {} => \A i \in 1 .. Len(outs) : Occ(outs[i], <<"#">>) = {}

\* A string was returned for a graph of two objects, each met once.
C12_Witness ==
    /\ Len(outs) >= 1 /\ Repeated = {}
    /\ Len(heap) >= 2 /\ \A o \in 1 .. Len(heap) : seen[o] # 0

\* C13: an engine constructed with an option key other than pretty, indent,
\* depth, limitDepth, maxComplexity and style does not come to exist: the
\* constructor raises an error whose message names every such key; with
\* recognised keys only, the constructor raises nothing.
C13_InvalidOptionsNamed ==
    /\ args.rest = << >> => bufs # << >>
    /\ args.rest # << >> =>
          /\ pc = "raised" /\ bufs = << >> /\ error # << >>
          /\ \A i \in 1 .. Len(args.rest) :
                Occ(error[1].message, args.rest[i].s) # {}

\* The formatted value is an object of one of the given kinds.
RootIs(kinds) == args.value.k = "object" /\ heap[1].kind \in kinds

\* C14: formatting an array never raises because of a getter: when reading
\* an element or a named property raises, format still returns, every item
\* of the array has been visited, and each raising item shows as a hint with
\* the message of its error.
C14_ArrayGetterAbsorbed ==
    RootIs(ListKinds) =>
        /\ pc # "raised"
        /\ \A n \in 1 .. Len(outs) :
              /\ Len(heap[1].vals) = heap[1].nf
              /\ Cardinality(Occ(outs[n], <<"boom">>))
                   = Cardinality({i \in 1 .. heap[1].nf : heap[1].vals[i].k = "getter"})

\* C15: formatting an object whose prototype is null does not raise, and the
\* string returned for it is an unnamed struct of its own enumerable fields
\* (`{}` for the object without fields).
C15_NullPrototypeFormatted ==
    RootIs({"NullProto"}) =>
        /\ pc # "raised"
        /\ \A n \in 1 .. Len(outs) : heap[1].nf = 0 => outs[n] = <<"{", "}">>

\* The string toString returned, as one string.
RECURSIVE Flat(_)
Flat(out) == IF out = << >> THEN "" ELSE Head(out) \o Flat(Tail(out))

\* A struct without nested scopes is flushed on one line.
SingleLine == ~ReachesMax(1, maxComplexity)

\* C16: struct.field writes a string key bare when it is an identifier and as
\* a quoted, escaped string otherwise, a symbol or number key as format writes
\* it, then `: ` and the value: on one line, { "foo-bar": 1, valid_id: 2 }
\* renders as `{ "foo-bar": 1, valid_id: 2 }`, and the other structs of the
\* model as listed.
C16_FieldKeys ==
    (SingleLine /\ Len(outs) >= 1) =>
        /\ RootIs({"Record"}) =>
             Flat(outs[1]) =
                 <<"{ \"foo-bar\": 1, valid_id: 2 }",
                   "{ $1: 1, \"a\\\"b\": 2, Symbol(s): 3 }",
                   "{ \"\": 1, \"1x\": 2, \"a\\n\": 3 }">>[heap[1].shape]
        /\ RootIs({"CustomFields"}) =>
             Flat(outs[1]) = "X { 7: 1, Symbol(s): 2, \"a b\": 3 }"

\* { "foo-bar": 1, valid_id: 2 } was formatted on one line.
C16_Witness ==
    /\ SingleLine /\ Len(outs) >= 1
    /\ RootIs({"Record"}) /\ heap[1].shape = 1
    /\ heap[1].vals = <<Num(1), Num(2)>>

\* C17: on one line a list renders as its name, a space, `[`, the entries
\* separated by `, `, and `]`, with no space after `[` and none before `]`:
\* the list named Name with the entries 1, 2, 3 renders as `Name [1, 2, 3]`.
C17_ListOnOneLine ==
    (/\ SingleLine /\ Len(outs) >= 1
     /\ RootIs({"NamedArray"}) /\ heap[1].shape = 0
     /\ ArrayLength(heap[1]) = 3
     /\ heap[1].vals = <<Num(1), Num(2), Num(3), Num(3)>>)
        => Flat(outs[1]) = "Name [1, 2, 3]"

\* C18: with the terminator `"`, escape replaces each of NUL, LF, CR, VT,
\* TAB, BS, FF by a backslash and its letter, puts a backslash before every
\* `"`, and copies every other character; none of the seven control
\* characters is left in the result.  Observed on format(string), which
\* returns the escaped string between two quotes.
C18_Escape ==
    (args.value.k = "string" /\ Len(outs) >= 1) =>
        LET str == args.value.s
            letter == (NUL :> "0") @@ (LF :> "n") @@ (CR :> "r") @@ (VT :> "v")
                      @@ (TAB :> "t") @@ (BS :> "b") @@ (FF :> "f")
            piece(c) == IF c \in DOMAIN letter THEN <<BACKSLASH, letter[c]>>
                        ELSE IF c = QUOTE THEN <<BACKSLASH, QUOTE>>
                        ELSE <<c>>
            RECURSIVE pieces(_)
            pieces(rest) == IF rest = << >> THEN << >>
                            ELSE piece(Head(rest)) \o pieces(Tail(rest))
        IN  /\ outs[1] = <<QUOTE>> \o pieces(str) \o <<QUOTE>>
            /\ \A i \in 1 .. Len(outs[1]) : outs[1][i] \notin DOMAIN letter

\* A string with a control character, a quote and a backslash in it was
\* formatted.
C18_Witness ==
    /\ args.value.k = "string" /\ Len(outs) >= 1
    /\ args.value.s = <<LF, QUOTE>>
    /\ outs[1] = <<QUOTE, BACKSLASH, "n", BACKSLASH, QUOTE, QUOTE>>

\* C19: when a sub-formatter scope has ended, the depth and the active buffer
\* are those of its entry, also after an error raised inside a nested scope
\* was absorbed as a field hint: while format runs, the depth is the number
\* of open scopes and the active buffer was created by the innermost of them,
\* and when format has returned the depth is 0 and the root buffer is active
\* (states in which an error is on its way to its catch block apart).
C19_ScopeRestored ==
    (pc = "done" \/ (Walking /\ Top.op # "throw")) =>
        /\ depth = Nesting
        /\ Nesting = 0 => result = 1
        /\ Nesting > 0 => (result # 1 /\ entryDepth[result] = depth - 1)

\* The identities met more than once whose source thunk is in a buffer the
\* flush of the current buffer reaches.
Shown ==
    {o \in Repeated :
        \E b \in Subtree(result) :
            \E i \in 1 .. Len(bufs[b]) : bufs[b][i] = SourceThunk(seen[o])}

NestedSum(b) == SumComplexity(NestedBuffers(b))

\* C21 as stated: flush returns multiline = TRUE exactly when a hard break
\* occurs in the buffer or in a transitively nested buffer, or the complexity
\* it returns reaches a finite maxComplexity.
C21_MultilineByReturnedComplexity ==
    pc = "done" =>
        \A b \in Subtree(result) :
            FlushOf(b).multiline
                = \/ HasHardBreak(b)
                  \/ /\ maxComplexity.is = "number"
                     /\ FlushOf(b).complexity >= maxComplexity.n

\* C21, amended: flush returns multiline = TRUE exactly when a hard break
\* occurs in the buffer or in a transitively nested buffer, or the sum of the
\* complexities of its directly nested buffers (the complexity it returns,
\* less 1) reaches a finite maxComplexity.
C21_MultilineByNestedSum ==
    pc = "done" =>
        \A b \in Subtree(result) :
            /\ FlushOf(b).complexity = NestedSum(b) + 1
            /\ FlushOf(b).multiline
                 = \/ HasHardBreak(b)
                   \/ maxComplexity.is = "number" /\ NestedSum(b) >= maxComplexity.n

\* With maxComplexity 3, a struct whose buffer returns complexity 3 was
\* flushed on one line, and the buffer it is nested in multi-line.
C21_Witness ==
    /\ pc = "done" /\ maxComplexity = Fin(DefaultMaxComplexity)
    /\ \E b \in Subtree(result), c \in Subtree(result) :
          /\ c \in NestedBuffers(b)
          /\ FlushOf(c).complexity = 3 /\ ~FlushOf(c).multiline
          /\ Breaks(c, "soft") # {}
          /\ ~HasHardBreak(b) /\ FlushOf(b).multiline

\* C22: flush returns complexity = 1 + the sum of the complexities its
\* directly nested buffers return: 1 for a buffer without nested buffers, and
\* for every buffer the number of buffers in its subtree, whatever text,
\* breaks, styled and deferred fragments the buffers hold.
C22_ComplexityCountsBuffers ==
    pc = "done" =>
        \A b \in 1 .. Len(bufs) :
            /\ FlushOf(b).complexity = 1 + NestedSum(b)
            /\ FlushOf(b).complexity = Cardinality(Subtree(b))
            /\ NestedBuffers(b) = {} => FlushOf(b).complexity = 1

\* A buffer with text, breaks and deferred fragments, and buffers nested in
\* it two levels deep, was flushed.
C22_Witness ==
    /\ pc = "done"
    /\ \E b \in Subtree(result), c \in Subtree(result), d \in Subtree(result) :
          /\ c \in NestedBuffers(b) /\ d \in NestedBuffers(c)
          /\ Cardinality(NestedBuffers(b)) = 2
          /\ FlushOf(b).complexity = 4
          /\ \E i, j, k \in 1 .. Len(bufs[b]) :
                /\ bufs[b][i].t = "string" /\ bufs[b][j].t = "break"
                /\ bufs[b][k].t = "function"

\* C23: a buffer that holds a hard break is flushed multi-line, whatever
\* maxComplexity is, and whenever a buffer is flushed multi-line, every buffer
\* it is nested in, up to the root, is flushed multi-line.
C23_MultilinePropagates ==
    pc = "done" =>
        \A b \in 1 .. Len(bufs) :
            LET r == FlushOf(b) IN
            /\ Breaks(b, "hard") # {} => r.multiline
            /\ \A c \in NestedBuffers(b) : FlushOf(c).multiline => r.multiline
            /\ HasHardBreak(b) => r.multiline
            /\ r.multiline =>
                  Cardinality({i \in 1 .. Len(r.value) : r.value[i] = NL})
                      >= Cardinality(Breaks(b, "hard") \cup Breaks(b, "soft"))

\* With pretty false, a hard break two levels below the root made the root
\* buffer multi-line.
C23_Witness ==
    /\ pc = "done" /\ maxComplexity = Infinity
    /\ \E b \in NestedBuffers(result) :
          \E c \in NestedBuffers(b) :
              /\ Breaks(c, "hard") # {}
              /\ Breaks(b, "hard") = {} /\ Breaks(result, "hard") = {}
              /\ FlushOf(b).multiline /\ FlushOf(result).multiline

\* C24: each line feed in a text passed to write becomes one hard break at
\* the current depth: the text 'a\nb' written at depth d shows in the string
\* toString returns as `a`, one newline, d indent units, `b`.
C24_LineBreakConverted ==
    (pc = "done" /\ Len(outs) >= 1) =>
        \A b \in Subtree(result) :
            \A i \in Breaks(b, "hard") :
                Occ(outs[1], <<"a", NL>> \o repeat(IndentUnit, bufs[b][i].indent)
                                 \o <<"b">>) # {}

\* C25: compareKeys orders numbers first, then strings, both ascending, then
\* unkeyed symbols, then keyed symbols ascending by their registration keys:
\* compareKeys(a, b) < 0 exactly when a comes before b in that order, and
\* the fields of a struct whose keys were sorted with it show in that order.
C25_KeyOrder ==
    (RootIs({"CustomSorted"}) /\ SingleLine /\ Len(outs) >= 1) =>
        LET keys == UnsortedKeys[heap[1].shape]
            \* the documented order: a is strictly before b
            KeyRank(a) ==
                IF a.t = "number" THEN 1 ELSE IF a.t = "string" THEN 2
                ELSE IF a.keyFor = Undefined THEN 3 ELSE 4
            DocumentedBefore(a, b) ==
                \/ KeyRank(a) < KeyRank(b)
                \/ /\ KeyRank(a) = KeyRank(b)
                   /\ CASE KeyRank(a) = 1 -> a.n < b.n
                        [] KeyRank(a) = 2 -> StringLess(a.s, b.s)
                        [] KeyRank(a) = 3 -> FALSE
                        [] OTHER -> StringLess(a.keyFor, b.keyFor)
        IN
        /\ \A i, j \in 1 .. Len(keys) :
              (compareKeys(keys[i], keys[j]) < 0) = DocumentedBefore(keys[i], keys[j])
        /\ Flat(outs[1]) =
              <<"X { 1: 1, 2: 2, 10: 3 }",
                "X { b: 1, Symbol.for(a): 2, Symbol.for(b): 3 }",
                "X { 1: 1, a: 2, Symbol(s): 3 }">>[heap[1].shape]

\* How often buffer b was pushed into a buffer.
Pushes(b) ==
    Cardinality({c \in 1 .. Len(bufs) : b \in NestedBuffers(c)})

\* C26: no written content is lost: when format has returned, also after an
\* error raised while formatting a field was absorbed as a hint, every buffer
\* the session wrote into is reached by the flush of toString(), through
\* exactly one push, so that the string returned has one opening delimiter for
\* every scope that was opened.
C26_NoContentLost ==
    pc = "done" =>
        /\ \A b \in 1 .. Len(bufs) :
              /\ b \in Subtree(result)
              /\ b # result => Pushes(b) = 1
        /\ \A n \in 1 .. Len(outs) :
              Cardinality(Occ(outs[n], <<"{">>) \cup Occ(outs[n], <<"[">>))
                  = Len(bufs) - 1

\* The positions of the source markers `#n = ` in the string out.
Markers(out) ==
    {i \in 1 .. Len(out) - 2 : out[i] = "#" /\ out[i + 2] = " = "}

\* C27: no number is taken during the walk, and in the string the first
\* toString() of an engine returns the source markers carry the numbers 0, 1,
\* 2, ... from left to right.
C27_MarkersConsecutive ==
    /\ Len(outs) = 0 => REF_NUMBER = Absent
    /\ Len(outs) = 1 =>
          /\ \A i \in Markers(outs[1]) :
                outs[1][i + 1]
                    = NumStr(Cardinality({j \in Markers(outs[1]) : j < i}))
          /\ REF_NUMBER # Absent =>
                REF_NUMBER = Fin(Cardinality(Markers(outs[1])))

\* The second engine for the same value returned a string with the markers
\* `#0 = ` and `#1 = `, in this order, the identity marked #1 having been met
\* again before the identity marked #0 was.
C27_Witness ==
    /\ previous # << >> /\ Len(outs) = 1
    /\ Cardinality(Markers(outs[1])) = 2
    /\ Len(repeats) = 2 /\ repeats[1] > repeats[2]
    /\ \E i, j \in Markers(outs[1]) :
          i < j /\ outs[1][i + 1] = "0" /\ outs[1][j + 1] = "1"

\* C28: string formatting is injective: the string returned for a string
\* value is returned for no other string value.
C28_FormatStringInjective ==
    (args.value.k = "string" /\ Len(outs) >= 1) =>
        \A other \in Strings \ {args.value.s} :
            outs[1] # <<QUOTE>> \o escape(other, QUOTE) \o <<QUOTE>>

\* In the one-line string out returned for an array of numbers: the
\* positions of the rendered entries, and the number of items the
\* placeholders `empty item` and `N empty items` announce.
RenderedEntries(out) ==
    {i \in 1 .. Len(out) :
        /\ out[i] \in {NumStr(n) : n \in 0 .. 9}
        /\ (i = Len(out) \/ out[i + 1] # " empty items")}
RECURSIVE AnnouncedEmpty(_)
AnnouncedEmpty(out) ==
    IF out = << >> THEN 0
    ELSE (IF Head(out) = "empty item" THEN 1
          ELSE IF Len(out) >= 2 /\ out[2] = " empty items"
          THEN CHOOSE n \in 0 .. 9 : NumStr(n) = Head(out)
          ELSE 0)
         + AnnouncedEmpty(Tail(out))

\* C29: default array formatting accounts for every index below length
\* exactly once: in the string returned for an array, with holes at any
\* positions, the number of rendered entries plus the numbers of items the
\* placeholders announce is the length of the array.
C29_EveryIndexAccounted ==
    (/\ RootIs({"SparseArray", "Array"})
     /\ (heap[1].kind = "Array" => heap[1].shape = 0)
     /\ pc = "done" /\ Len(outs) >= 1) =>
        Cardinality(RenderedEntries(outs[1])) + AnnouncedEmpty(outs[1])
            = ArrayLength(heap[1])

\* C30: the string returned for a Uint8Array is its type name, a space, and
\* one double-quoted string holding the renderings of all its bytes in the
\* order of the bytes: two-character escapes for the control bytes and the
\* quote, the character for a printable byte, \xHH for any other byte.
C30_ByteArrayQuoted ==
    (RootIs({"Uint8Array"}) /\ Len(outs) >= 1) =>
        LET ByteRendering(byte) ==
                CASE byte \in {0, 8, 9, 10, 11, 12, 13, 34} -> ByteEscape(byte)
                  [] OTHER -> ByteText(byte)
            RECURSIVE ByteRenderings(_)
            ByteRenderings(bytes) ==
                IF bytes = << >> THEN << >>
                ELSE ByteRendering(Head(bytes).n) \o ByteRenderings(Tail(bytes))
        IN  outs[1] = <<"Uint8Array", " [", "Uint8Array", "]", " ", QUOTE>>
                      \o ByteRenderings(heap[1].vals) \o <<QUOTE>>
====
